---- MODULE Spec2Model ----
(***************************************************************************)
(* A model of payroll.py: the attendance-report extractor                  *)
(* (parse_html_report), the metrics calculator (calculate_metrics), the    *)
(* rate store helpers (load_rates_from_sheet, save_rates_to_sheet) and the *)
(* module-level script that runs them in sequence.                         *)
(*                                                                         *)
(* Text is modelled as a sequence of one-character strings, so that        *)
(* stripping, lower-casing, substring search, lexicographic comparison and *)
(* strptime are computed on characters as the code computes them.          *)
(* Durations are whole seconds; Late/Overtime are held in hundredths of a  *)
(* minute (the code rounds them to 2 decimals); rates are held in units of *)
(* 1/RateDen currency units per minute.  Floating-point arithmetic is      *)
(* modelled by exact rational arithmetic with Python's round-half-even.    *)
(***************************************************************************)
EXTENDS Integers, Sequences, FiniteSets, TLC

VARIABLES
    sheet,          \* the external 'employee_rates' sheet: a sequence of rows [ID, Rate]
    sheet0,         \* history: the sheet as it was when the run started
    uploaded_file,  \* [present, tables]: the uploaded document, a sequence of tables
    shift_start,    \* st.time_input value, seconds since midnight
    shift_end,
    rates_db,       \* the in-memory dict: [id, rate] entries in insertion order
    loaded_db,      \* history: rates_db as load_rates_from_sheet returned it
    raw_df,         \* result of parse_html_report
    processed_df,   \* result of calculate_metrics
    ui,             \* the message the script ends up showing
    pc              \* position of the script

vars == <<sheet, sheet0, uploaded_file, shift_start, shift_end, rates_db,
          loaded_db, raw_df, processed_df, ui, pc>>

-----------------------------------------------------------------------------
(* Characters and strings                                                  *)

\* The characters of the model, in code-point order.
ASCII ==
    <<" ", "-", "0", "1", "2", "3", "4", "5", "6", "7", "8", "9", ":",
      "A", "B", "D", "E", "I", "M", "N", "O", "R", "T", "U",
      "a", "b", "d", "e", "i", "m", "n", "o", "r", "t", "u">>

Ord(c) == CHOOSE i \in 1..Len(ASCII) : ASCII[i] = c

UPPER == <<"A", "B", "D", "E", "I", "M", "N", "O", "R", "T", "U">>
LOWER == <<"a", "b", "d", "e", "i", "m", "n", "o", "r", "t", "u">>

\* str.lower() on one character
LowerChar(c) ==
    IF \E i \in 1..Len(UPPER) : UPPER[i] = c
    THEN LOWER[CHOOSE i \in 1..Len(UPPER) : UPPER[i] = c]
    ELSE c

\* str.lower()
Lower(s) == [i \in 1..Len(s) |-> LowerChar(s[i])]

\* needle in s
Contains(s, needle) ==
    \E i \in 0..(Len(s) - Len(needle)) :
        \A j \in 1..Len(needle) : s[i + j] = needle[j]

IsSpace(c) == c = " "

\* str.strip(): what get_text(strip=True) does to a cell holding one text node
Strip(s) ==
    LET keep == {i \in 1..Len(s) : ~IsSpace(s[i])}
    IN  IF keep = {} THEN <<>>
        ELSE LET lo == CHOOSE i \in keep : \A j \in keep : i <= j
                 hi == CHOOSE i \in keep : \A j \in keep : j <= i
             IN  SubSeq(s, lo, hi)

\* a < b for Python strings: code-point lexicographic order
StrLess(a, b) ==
    \E i \in 1..(Len(b)) :
        /\ \A j \in 1..(i - 1) : j <= Len(a) /\ a[j] = b[j]
        /\ i - 1 <= Len(a)
        /\ \/ i > Len(a)
           \/ Ord(a[i]) < Ord(b[i])

IsDigit(c) == c \in {"0", "1", "2", "3", "4", "5", "6", "7", "8", "9"}

IsDigits(s) == Len(s) >= 1 /\ \A i \in 1..Len(s) : IsDigit(s[i])

DigitVal(c) == Ord(c) - Ord("0")

RECURSIVE ToInt(_)
\* int() of a digit string
ToInt(s) ==
    IF Len(s) = 0 THEN 0
    ELSE 10 * ToInt(SubSeq(s, 1, Len(s) - 1)) + DigitVal(s[Len(s)])

\* the pieces of s between occurrences of sep, when there are exactly two
Split3(s, sep) ==
    LET at == {i \in 1..Len(s) : s[i] = sep}
    IN  IF Cardinality(at) # 2 THEN <<>>
        ELSE LET p == CHOOSE i \in at : \A j \in at : i <= j
                 q == CHOOSE i \in at : \A j \in at : j <= i
             IN  <<SubSeq(s, 1, p - 1), SubSeq(s, p + 1, q - 1),
                   SubSeq(s, q + 1, Len(s))>>

-----------------------------------------------------------------------------
(* datetime.strptime                                                       *)

IsLeap(y) == (y % 4 = 0 /\ y % 100 # 0) \/ y % 400 = 0

DaysInMonth(y, m) ==
    IF m = 2 THEN (IF IsLeap(y) THEN 29 ELSE 28)
    ELSE IF m \in {4, 6, 9, 11} THEN 30 ELSE 31

\* one or two digits, as the directives %m %d %H %M %S accept them
OneOrTwoDigits(s) == Len(s) \in {1, 2} /\ IsDigits(s)

\* datetime.strptime(s, '%Y-%m-%d') does not raise ValueError
DateOk(s) ==
    LET p == Split3(s, "-")
    IN  /\ p # <<>>
        /\ Len(p[1]) = 4 /\ IsDigits(p[1]) /\ ToInt(p[1]) >= 1
        /\ OneOrTwoDigits(p[2]) /\ ToInt(p[2]) \in 1..12
        /\ LET d == IF Len(p[3]) = 2 /\ p[3][1] = " " THEN SubSeq(p[3], 2, 2)
                    ELSE p[3]
           IN  /\ OneOrTwoDigits(d)
               /\ ToInt(d) \in 1..DaysInMonth(ToInt(p[1]), ToInt(p[2]))

\* the '%H:%M:%S' part of strptime does not raise ValueError
TimeOk(s) ==
    LET p == Split3(s, ":")
    IN  /\ p # <<>>
        /\ OneOrTwoDigits(p[1]) /\ ToInt(p[1]) \in 0..23
        /\ OneOrTwoDigits(p[2]) /\ ToInt(p[2]) \in 0..59
        /\ OneOrTwoDigits(p[3]) /\ ToInt(p[3]) \in 0..59

\* seconds since midnight of a time string that parses
TimeSecs(s) ==
    LET p == Split3(s, ":")
    IN  3600 * ToInt(p[1]) + 60 * ToInt(p[2]) + ToInt(p[3])

TwoDigits(n) == <<ASCII[Ord("0") + (n \div 10)], ASCII[Ord("0") + (n % 10)]>>

\* str(datetime.time) for a time of n seconds since midnight: zero-padded HH:MM:SS
TimeStr(n) ==
    TwoDigits(n \div 3600) \o <<":">> \o TwoDigits((n % 3600) \div 60)
        \o <<":">> \o TwoDigits(n % 60)

-----------------------------------------------------------------------------
(* parse_html_report                                                       *)

\* A document is a sequence of tables, a table a sequence of rows (tr), a row
\* a sequence of cells [tag |-> "td" or "th", text |-> characters].

RECURSIVE Concat(_)
Concat(ss) == IF Len(ss) = 0 THEN <<>> ELSE Head(ss) \o Concat(Tail(ss))

\* row.get_text(): the texts of the cells, joined
RowText(row) == Concat([i \in 1..Len(row) |-> row[i].text])

\* t.get_text()
TableText(t) == Concat([i \in 1..Len(t) |-> RowText(t[i])])

STR_id_number == <<"i", "d", " ", "n", "u", "m", "b", "e", "r">>
STR_date == <<"d", "a", "t", "e">>

\* the test of the table loop
IsTarget(t) ==
    LET headers_text == Lower(TableText(t))
    IN  Contains(headers_text, STR_id_number) /\ Contains(headers_text, STR_date)

RECURSIVE FindTargetLast(_, _)
\* FindTarget without the break: the last matching table wins
FindTargetLast(tables, i) ==
    IF i > Len(tables) THEN 0
    ELSE LET later == FindTargetLast(tables, i + 1)
         IN  IF later # 0 THEN later
             ELSE IF IsTarget(tables[i]) THEN i ELSE 0

RECURSIVE FindTarget(_, _)
\* the table loop: index of target_table, 0 when the loop ends without a break
FindTarget(tables, i) ==
    IF i > Len(tables) THEN 0
    ELSE IF IsTarget(tables[i]) THEN i
    ELSE FindTarget(tables, i + 1)

\* row.find_all('td')
Cols(row) == SelectSeq(row, LAMBDA c : c.tag = "td")

\* the times list of a row
Times(cols) ==
    LET stripped == [i \in 1..(Len(cols) - 3) |-> Strip(cols[i + 3].text)]
    IN  SelectSeq(stripped, LAMBDA t_str : t_str # <<>> /\ Contains(t_str, <<":">>))

RECURSIVE MinStr(_)
\* min(times)
MinStr(times) ==
    IF Len(times) = 1 THEN times[1]
    ELSE LET m == MinStr(Tail(times))
         IN  IF StrLess(m, Head(times)) THEN m ELSE Head(times)

\* MaxStr taking the last punch of the row instead of the largest
MaxStrLast(times) == times[Len(times)]

RECURSIVE MaxStr(_)
\* max(times)
MaxStr(times) ==
    IF Len(times) = 1 THEN times[1]
    ELSE LET m == MaxStr(Tail(times))
         IN  IF StrLess(Head(times), m) THEN m ELSE Head(times)

\* RowRecords asking for more than 5 cells
RowRecordsSixCells(row) ==
    LET cols == Cols(row)
    IN  IF Len(cols) <= 5 THEN <<>>
        ELSE LET date_str == Strip(cols[1].text)
             IN  IF ~DateOk(date_str) THEN <<>>
                 ELSE LET times == Times(cols)
                      IN  IF times = <<>> THEN <<>>
                          ELSE << [Date |-> date_str,
                                   ID |-> Strip(cols[2].text),
                                   Name |-> Strip(cols[3].text),
                                   First_In |-> MinStr(times),
                                   Last_Out |-> MaxStr(times)] >>

\* the body of the row loop: the records appended for one row (none or one)
RowRecords(row) ==
    LET cols == Cols(row)
    IN  IF Len(cols) < 5 THEN <<>>
        ELSE LET date_str == Strip(cols[1].text)
             IN  IF ~DateOk(date_str) THEN <<>>
                 ELSE LET times == Times(cols)
                      IN  IF times = <<>> THEN <<>>
                          ELSE << [Date |-> date_str,
                                   ID |-> Strip(cols[2].text),
                                   Name |-> Strip(cols[3].text),
                                   First_In |-> MinStr(times),
                                   Last_Out |-> MaxStr(times)] >>

RECURSIVE RowLoopDedup(_, _, _)
\* RowLoop skipping a row whose (id, date) was already emitted
RowLoopDedup(rows, i, data) ==
    IF i > Len(rows) THEN data
    ELSE LET recs == RowRecords(rows[i])
             seen == recs # <<>> /\ \E k \in 1..Len(data) :
                        data[k].ID = recs[1].ID /\ data[k].Date = recs[1].Date
         IN  RowLoopDedup(rows, i + 1, IF seen THEN data ELSE data \o recs)

RECURSIVE RowLoop(_, _, _)
\* the row loop
RowLoop(rows, i, data) ==
    IF i > Len(rows) THEN data
    ELSE RowLoop(rows, i + 1, data \o RowRecords(rows[i]))

\* parse_html_report: [none |-> TRUE] is None, otherwise the DataFrame's rows
parse_html_report(doc) ==
    LET k == FindTarget(doc, 1)
    IN  IF k = 0 THEN [none |-> TRUE, rows |-> <<>>]
        ELSE [none |-> FALSE, rows |-> RowLoop(doc[k], 1, <<>>)]

-----------------------------------------------------------------------------
(* calculate_metrics                                                       *)

\* DEFAULT_RATE_PER_MINUTE = 0.0
DEFAULT_RATE_PER_MINUTE == 0

\* rates are held in units of 1/RateDen currency units per minute
RateDen == 2

\* a dict is a sequence of [id, rate] entries in insertion order, ids distinct
DictKeys(d) == {d[i].id : i \in 1..Len(d)}

\* DictGet falling back to 1.0 per minute instead of the default handed in
DictGetDefaultOne(d, key, default) ==
    IF key \in DictKeys(d)
    THEN d[CHOOSE i \in 1..Len(d) : d[i].id = key].rate
    ELSE RateDen

\* d.get(key, default)
DictGet(d, key, default) ==
    IF key \in DictKeys(d)
    THEN d[CHOOSE i \in 1..Len(d) : d[i].id = key].rate
    ELSE default

\* d[key] = rate
DictSet(d, key, rate) ==
    IF key \in DictKeys(d)
    THEN [i \in 1..Len(d) |-> IF d[i].id = key THEN [id |-> key, rate |-> rate] ELSE d[i]]
    ELSE Append(d, [id |-> key, rate |-> rate])

\* round(num/den, 0) for den > 0: to the nearest integer, ties to the even one
RoundHalfEven(num, den) ==
    LET q == num \div den
        r == num - q * den
    IN  IF 2 * r < den THEN q
        ELSE IF 2 * r > den THEN q + 1
        ELSE IF q % 2 = 0 THEN q ELSE q + 1

\* Max0 without the max(0, ...): a negative difference is kept
Max0Identity(x) == x

Max0(x) == IF x > 0 THEN x ELSE 0

\* the rows of df on which strptime raises ValueError
RowOk(row) == DateOk(row.Date) /\ TimeOk(row.First_In) /\ TimeOk(row.Last_Out)

\* Duration clamped at zero when the last punch precedes the first
DurationClamped(row) ==
    LET secs == TimeSecs(row.Last_Out) - TimeSecs(row.First_In)
    IN  [days |-> 0, seconds |-> IF secs > 0 THEN secs ELSE 0]

\* the timedelta t_out - t_in, normalised as datetime.timedelta holds it
Duration(row) ==
    LET secs == TimeSecs(row.Last_Out) - TimeSecs(row.First_In)
    IN  [days |-> secs \div 86400, seconds |-> secs % 86400]

\* duration.total_seconds()
TotalSeconds(duration) == 86400 * duration.days + duration.seconds

\* round(max(0, late_seconds / 60), 2), in hundredths of a minute
LateOf(row, start_time) ==
    LET late_seconds == TimeSecs(row.First_In) - TimeSecs(TimeStr(start_time))
    IN  RoundHalfEven(100 * Max0(late_seconds), 60)

\* round(max(0, overtime_seconds / 60), 2), in hundredths of a minute
OvertimeOf(row, end_time) ==
    LET overtime_seconds == TimeSecs(row.Last_Out) - TimeSecs(TimeStr(end_time))
    IN  RoundHalfEven(100 * Max0(overtime_seconds), 60)

\* round(total_minutes_worked * rate, 0), in whole currency units
PayOf(row, rates) ==
    LET rate == DictGet(rates, row.ID, DEFAULT_RATE_PER_MINUTE)
    IN  RoundHalfEven(TotalSeconds(Duration(row)) * rate, 60 * RateDen)

\* the dict appended to results for one row
Metrics(row, start_time, end_time, rates) ==
    [Date |-> row.Date, ID |-> row.ID, Name |-> row.Name,
     First_In |-> row.First_In, Last_Out |-> row.Last_Out,
     Worked |-> Duration(row),
     Late |-> LateOf(row, start_time),
     Overtime |-> OvertimeOf(row, end_time),
     Pay |-> PayOf(row, rates)]

\* calculate_metrics raises: some row's timestamps do not parse
calculate_metrics_raises(df) == \E i \in 1..Len(df) : ~RowOk(df[i])

\* calculate_metrics, when it returns
calculate_metrics(df, start_time, end_time, rates) ==
    [i \in 1..Len(df) |-> Metrics(df[i], start_time, end_time, rates)]

-----------------------------------------------------------------------------
(* The rate store                                                          *)

\* a sheet row is [ID |-> cell, Rate |-> number]; get_all_records returns a
\* cell either as an integer [int |-> TRUE, val |-> n] or as text
\* [int |-> FALSE, val |-> characters]

RECURSIVE IntStr(_)
\* str(n) for an integer n >= 0
IntStr(n) ==
    IF n < 10 THEN <<ASCII[Ord("0") + n]>>
    ELSE IntStr(n \div 10) \o <<ASCII[Ord("0") + (n % 10)]>>

\* str(row['ID'])
PyStr(cell) == IF cell.int THEN IntStr(cell.val) ELSE cell.val

RECURSIVE LoadLoop(_, _, _)
\* the loop of load_rates_from_sheet
LoadLoop(records, i, db) ==
    IF i > Len(records) THEN db
    ELSE LoadLoop(records, i + 1, DictSet(db, PyStr(records[i].ID), records[i].Rate))

\* load_rates_from_sheet when nothing raises
load_rates_from_sheet(sh) == LoadLoop(sh, 1, <<>>)

\* the rows save_rates_to_sheet uploads below the header row
SaveData(rates_dict) ==
    [i \in 1..Len(rates_dict) |->
        [ID |-> [int |-> FALSE, val |-> rates_dict[i].id], Rate |-> rates_dict[i].rate]]

-----------------------------------------------------------------------------
(* New-employee provisioning                                               *)

\* raw_df[['ID', 'Name']].drop_duplicates(): the first row of each (ID, Name)
UniqueEmployees(rows) ==
    LET first == {i \in 1..Len(rows) :
                    \A j \in 1..(i - 1) :
                        ~(rows[j].ID = rows[i].ID /\ rows[j].Name = rows[i].Name)}
        Nth(k) == CHOOSE i \in first : Cardinality({j \in first : j < i}) = k - 1
    IN  [k \in 1..Cardinality(first) |->
            [ID |-> rows[Nth(k)].ID, Name |-> rows[Nth(k)].Name]]

RECURSIVE ProvisionLoopOverwrite(_, _, _)
\* ProvisionLoop without the membership test: every id of the report is reset
ProvisionLoopOverwrite(rows, i, db) ==
    IF i > Len(rows) THEN db
    ELSE ProvisionLoopOverwrite(rows, i + 1,
            DictSet(db, rows[i].ID, DEFAULT_RATE_PER_MINUTE))

RECURSIVE ProvisionLoop(_, _, _)
\* the loop over unique_employees
ProvisionLoop(rows, i, db) ==
    IF i > Len(rows) THEN db
    ELSE ProvisionLoop(rows, i + 1,
            IF rows[i].ID \in DictKeys(db) THEN db
            ELSE DictSet(db, rows[i].ID, DEFAULT_RATE_PER_MINUTE))

\* new_emps after the loop
NewEmps(rows, db) == \E i \in 1..Len(rows) : rows[i].ID \notin DictKeys(db)

-----------------------------------------------------------------------------
(* Inputs                                                                  *)

MaxRows == 2        \* data rows per generated table of a parsed document
RunMaxRows == 2     \* data rows of the report table in a whole run
MaxRecs == 1        \* rows of the frame handed to calculate_metrics directly

Td(text) == [tag |-> "td", text |-> text]
Th(text) == [tag |-> "th", text |-> text]

S_Date == <<"D", "a", "t", "e">>
S_IDNumber == <<"I", "D", " ", "N", "u", "m", "b", "e", "r">>
S_DATE == <<"D", "A", "T", "E">>
S_IDNUMBER == <<"I", "D", " ", "N", "U", "M", "B", "E", "R">>
S_Name == <<"N", "a", "m", "e">>
S_In == <<"I", "n">>
S_Out == <<"O", "u", "t">>
S_Menu == <<"M", "e", "n", "u">>
S_Ann == <<"A", "n", "n">>
S_Bob == <<"B", "o", "b">>

D_0105 == <<"2", "0", "2", "4", "-", "0", "1", "-", "0", "5">>
D_0106 == <<"2", "0", "2", "4", "-", "1", "-", "6">>
D_0230 == <<"2", "0", "2", "4", "-", "0", "2", "-", "3", "0">>

T_0805 == <<"0", "8", ":", "0", "5", ":", "0", "0">>
T_1200 == <<"1", "2", ":", "0", "0", ":", "0", "0">>
T_1300 == <<"1", "3", ":", "0", "0", ":", "0", "0">>
T_1720 == <<"1", "7", ":", "2", "0", ":", "0", "0">>
T_0900 == <<"0", "9", ":", "0", "0", ":", "0", "0">>
T_0900_padded == <<" ", "0", "9", ":", "0", "0", ":", "0", "0", " ">>
T_073030 == <<"0", "7", ":", "3", "0", ":", "3", "0">>
T_1600 == <<"1", "6", ":", "0", "0", ":", "0", "0">>
T_900 == <<"9", ":", "0", "0", ":", "0", "0">>
T_junk == <<"a", ":", "b">>
T_blank == <<" ">>

\* a table row of td cells
TdRow(texts) == [i \in 1..Len(texts) |-> Td(texts[i])]

\* a header row of th cells
ThRow(texts) == [i \in 1..Len(texts) |-> Th(texts[i])]

R_scenario == TdRow(<<D_0105, <<"1">>, S_Ann, T_0805, T_1200, T_1300, T_1720>>)
R_single == TdRow(<<D_0105, <<"2">>, S_Bob, T_0900_padded, <<>>>>)
R_nopunch == TdRow(<<D_0105, <<"1">>, S_Ann, <<>>, T_blank>>)
R_again == TdRow(<<D_0105, <<" ", "1">>, S_Ann, T_1600, T_073030>>)
R_short == TdRow(<<D_0105, <<"2">>, S_Bob, T_0805>>)
R_baddate == TdRow(<<D_0230, <<"2">>, S_Bob, T_0805, T_1720>>)
R_unpadded == TdRow(<<D_0106, <<"2">>, S_Bob, T_1720, T_900>>)
R_junk == TdRow(<<D_0106, <<"3">>, S_Ann, T_junk, <<>>>>)
R_thdate == <<Th(D_0105)>> \o TdRow(<<<<"1">>, S_Ann, T_0805, T_1720>>)

RowPool ==
    {R_scenario, R_single, R_nopunch, R_again, R_short, R_baddate, R_unpadded,
     R_junk, R_thdate}

H_th == ThRow(<<S_Date, S_IDNumber, S_Name, S_In, S_Out>>)
H_upper == TdRow(<<S_DATE, S_IDNUMBER, S_Name, S_In, S_Out>>)
H_menu == TdRow(<<S_Menu, S_Name, S_Name, S_In, S_Out>>)

HeaderPool == {H_th, H_upper, H_menu}

\* sequences over S of length at most n
RECURSIVE SeqsUpTo(_, _)
SeqsUpTo(S, n) ==
    IF n = 0 THEN {<<>>}
    ELSE LET shorter == SeqsUpTo(S, n - 1)
         IN  shorter \cup {Append(q, x) : q \in {r \in shorter : Len(r) = n - 1}, x \in S}

\* tables around the generated one: a menu, a table with a date but no id
\* column, and a second report
R_menu == TdRow(<<D_0105, <<"7">>, S_Menu, T_0805, T_1720>>)
R_dateonly == TdRow(<<D_0105, <<"8">>, S_Date, T_0805, T_1720>>)
R_other == TdRow(<<D_0105, <<"9">>, S_Bob, T_0900, T_1600>>)
Tbl_menu == <<H_menu, R_menu>>
Tbl_dateonly == <<ThRow(<<S_Date, S_Name>>), R_dateonly>>
Tbl_other == <<H_th, R_other>>

PrePool == {<<>>, <<Tbl_menu>>, <<Tbl_dateonly>>, <<Tbl_other>>, <<Tbl_menu, Tbl_other>>}
PostPool == {<<>>, <<Tbl_other>>}

GenTables(pool, n) == {<<h>> \o rows : h \in HeaderPool, rows \in SeqsUpTo(pool, n)}

Docs == {pre \o <<t>> \o post : pre \in PrePool, t \in GenTables(RowPool, MaxRows),
                                post \in PostPool}
            \cup {<<>>, <<Tbl_menu>>}

File(doc) == [present |-> TRUE, tables |-> doc]
NoFile == [present |-> FALSE, tables |-> <<>>]

RunRowPool == {R_scenario, R_single, R_nopunch, R_again, R_junk}

RunFiles ==
    {File(<<t>>) : t \in GenTables(RunRowPool, RunMaxRows)}
        \cup {File(<<Tbl_menu, Tbl_other>>), File(<<>>), NoFile}

IntCell(n) == [int |-> TRUE, val |-> n]
StrCell(s) == [int |-> FALSE, val |-> s]

\* the sheets a run starts from
Sheets ==
    {<<>>,
     <<[ID |-> IntCell(1), Rate |-> 5 * RateDen]>>,
     <<[ID |-> IntCell(1), Rate |-> 5 * RateDen], [ID |-> StrCell(<<"2">>), Rate |-> 1]>>,
     <<[ID |-> IntCell(12), Rate |-> 1], [ID |-> StrCell(<<"3">>), Rate |-> 0]>>}

\* 08:00, 17:00 and 09:00:30
ShiftPool == {28800, 61200, 32430}

NoFrame == [none |-> TRUE, rows |-> <<>>]

\* frames handed to calculate_metrics directly
CalcTimes == {T_0805, T_1720, T_0900, T_073030, T_900, T_junk}
CalcRows ==
    {[Date |-> D_0105, ID |-> id, Name |-> S_Ann, First_In |-> a, Last_Out |-> b] :
        id \in {<<"1">>, <<"2">>}, a \in CalcTimes, b \in CalcTimes}
CalcFrames == SeqsUpTo(CalcRows, MaxRecs)
CalcRates ==
    {<<>>,
     <<[id |-> <<"1">>, rate |-> 5 * RateDen]>>,
     <<[id |-> <<"1">>, rate |-> 1]>>,
     <<[id |-> <<"2">>, rate |-> 3], [id |-> <<"1">>, rate |-> 0]>>}

-----------------------------------------------------------------------------
(* The script                                                              *)

Init ==
    /\ sheet \in Sheets
    /\ sheet0 = sheet
    /\ uploaded_file \in RunFiles
    /\ shift_start = 28800
    /\ shift_end \in {61200, 28800}
    /\ rates_db = <<>>
    /\ loaded_db = <<>>
    /\ raw_df = NoFrame
    /\ processed_df = <<>>
    /\ ui = ""
    /\ pc = "load"

\* rates_db = load_rates_from_sheet(): the sheet is read
LoadRates ==
    /\ pc = "load"
    /\ rates_db' = load_rates_from_sheet(sheet)
    /\ loaded_db' = rates_db'
    /\ pc' = "upload"
    /\ UNCHANGED <<sheet, sheet0, uploaded_file, shift_start, shift_end, raw_df,
                   processed_df, ui>>

\* rates_db = load_rates_from_sheet(): the client raises and {} is returned
LoadRatesFails ==
    /\ pc = "load"
    /\ rates_db' = <<>>
    /\ loaded_db' = rates_db'
    /\ pc' = "upload"
    /\ UNCHANGED <<sheet, sheet0, uploaded_file, shift_start, shift_end, raw_df,
                   processed_df, ui>>

\* no uploaded_file: the upload prompt
NoUpload ==
    /\ pc = "upload"
    /\ ~uploaded_file.present
    /\ ui' = "upload_prompt"
    /\ pc' = "done"
    /\ UNCHANGED <<sheet, sheet0, uploaded_file, shift_start, shift_end, rates_db,
                   loaded_db, raw_df, processed_df>>

\* raw_df = parse_html_report(uploaded_file)
ParseReport ==
    /\ pc = "upload"
    /\ uploaded_file.present
    /\ raw_df' = parse_html_report(uploaded_file.tables)
    /\ pc' = "parsed"
    /\ UNCHANGED <<sheet, sheet0, uploaded_file, shift_start, shift_end, rates_db,
                   loaded_db, processed_df, ui>>

\* raw_df is None or raw_df.empty: the parse error
ShowParseError ==
    /\ pc = "parsed"
    /\ raw_df.none \/ raw_df.rows = <<>>
    /\ ui' = "error_parse"
    /\ pc' = "done"
    /\ UNCHANGED <<sheet, sheet0, uploaded_file, shift_start, shift_end, rates_db,
                   loaded_db, raw_df, processed_df>>

\* Provision entered on any frame that is not None, empty or not
ProvisionOnEmptyFrame ==
    /\ pc = "parsed"
    /\ ~raw_df.none
    /\ rates_db' = ProvisionLoop(UniqueEmployees(raw_df.rows), 1, rates_db)
    /\ pc' = IF NewEmps(UniqueEmployees(raw_df.rows), rates_db) THEN "save" ELSE "calc"
    /\ UNCHANGED <<sheet, sheet0, uploaded_file, shift_start, shift_end, loaded_db,
                   raw_df, processed_df, ui>>

\* the check for new employees
Provision ==
    /\ pc = "parsed"
    /\ ~raw_df.none /\ raw_df.rows # <<>>
    /\ rates_db' = ProvisionLoop(UniqueEmployees(raw_df.rows), 1, rates_db)
    /\ pc' = IF NewEmps(UniqueEmployees(raw_df.rows), rates_db) THEN "save" ELSE "calc"
    /\ UNCHANGED <<sheet, sheet0, uploaded_file, shift_start, shift_end, loaded_db,
                   raw_df, processed_df, ui>>

\* save_rates_to_sheet: the client or the open raises before anything is written
SaveFails ==
    /\ pc = "save"
    /\ pc' = "calc"
    /\ UNCHANGED <<sheet, sheet0, uploaded_file, shift_start, shift_end, rates_db,
                   loaded_db, raw_df, processed_df, ui>>

\* save_rates_to_sheet: sheet.clear()
SaveClear ==
    /\ pc = "save"
    /\ sheet' = <<>>
    /\ pc' = "save_update"
    /\ UNCHANGED <<sheet0, uploaded_file, shift_start, shift_end, rates_db, loaded_db,
                   raw_df, processed_df, ui>>

\* save_rates_to_sheet: sheet.update(range_name='A1', values=data)
SaveUpdate ==
    /\ pc = "save_update"
    /\ sheet' = SaveData(rates_db)
    /\ pc' = "calc"
    /\ UNCHANGED <<sheet0, uploaded_file, shift_start, shift_end, rates_db, loaded_db,
                   raw_df, processed_df, ui>>

\* save_rates_to_sheet: sheet.update raises after the clear
SaveUpdateFails ==
    /\ pc = "save_update"
    /\ pc' = "calc"
    /\ UNCHANGED <<sheet, sheet0, uploaded_file, shift_start, shift_end, rates_db,
                   loaded_db, raw_df, processed_df, ui>>

\* processed_df = calculate_metrics(raw_df, shift_start, shift_end, rates_db)
CalculateMetrics ==
    /\ pc = "calc"
    /\ ~calculate_metrics_raises(raw_df.rows)
    /\ processed_df' = calculate_metrics(raw_df.rows, shift_start, shift_end, rates_db)
    /\ ui' = "report"
    /\ pc' = "done"
    /\ UNCHANGED <<sheet, sheet0, uploaded_file, shift_start, shift_end, rates_db,
                   loaded_db, raw_df>>

\* calculate_metrics raises ValueError on a row: the script stops
CalculateMetricsRaises ==
    /\ pc = "calc"
    /\ calculate_metrics_raises(raw_df.rows)
    /\ ui' = "exception"
    /\ pc' = "crashed"
    /\ UNCHANGED <<sheet, sheet0, uploaded_file, shift_start, shift_end, rates_db,
                   loaded_db, raw_df, processed_df>>

Next ==
    \/ LoadRates
    \/ LoadRatesFails
    \/ NoUpload
    \/ ParseReport
    \/ ShowParseError
    \/ Provision
    \/ SaveFails
    \/ SaveClear
    \/ SaveUpdate
    \/ SaveUpdateFails
    \/ CalculateMetrics
    \/ CalculateMetricsRaises

Spec == Init /\ [][Next]_vars

\* parse_html_report on its own, over a wider set of documents
InitParse ==
    /\ sheet = <<>>
    /\ sheet0 = sheet
    /\ uploaded_file \in {File(d) : d \in Docs}
    /\ shift_start = 28800
    /\ shift_end = 61200
    /\ rates_db = <<>>
    /\ loaded_db = <<>>
    /\ raw_df = NoFrame
    /\ processed_df = <<>>
    /\ ui = ""
    /\ pc = "upload"

NextParse == ParseReport

SpecParse == InitParse /\ [][NextParse]_vars

\* calculate_metrics on its own, over any frame, shift and rates table
InitCalc ==
    /\ sheet = <<>>
    /\ sheet0 = sheet
    /\ uploaded_file = NoFile
    /\ shift_start \in ShiftPool
    /\ shift_end \in ShiftPool
    /\ rates_db \in CalcRates
    /\ loaded_db = rates_db
    /\ raw_df \in {[none |-> FALSE, rows |-> f] : f \in CalcFrames}
    /\ processed_df = <<>>
    /\ ui = ""
    /\ pc = "calc"

NextCalc == CalculateMetrics \/ CalculateMetricsRaises

SpecCalc == InitCalc /\ [][NextCalc]_vars

-----------------------------------------------------------------------------
(* Properties of calculate_metrics (checked under SpecCalc)                *)

Returned == pc = "done" /\ ui = "report"

\* C1: every record calculate_metrics returns has Late >= 0 and Overtime >= 0,
\* whatever the punches and the shift times are.
C1_LateOvertimeNonNegative ==
    Returned =>
        \A i \in 1..Len(processed_df) :
            processed_df[i].Late >= 0 /\ processed_df[i].Overtime >= 0

\* a record was computed whose first punch is before the shift start and whose
\* last punch is before the shift end
C1_Witness ==
    /\ Returned
    /\ \E i \in 1..Len(processed_df) :
          /\ TimeSecs(raw_df.rows[i].First_In) < shift_start
          /\ TimeSecs(raw_df.rows[i].Last_Out) < shift_end
          /\ processed_df[i].Late = 0 /\ processed_df[i].Overtime = 0

\* C2: a record whose id is not a key of the rates table gets Pay 0 for any
\* worked duration, and calculate_metrics raises only on a row whose
\* timestamps do not parse, never because of an unknown id.
C2_UnknownIdPaysZero ==
    /\ Returned =>
          /\ Len(processed_df) = Len(raw_df.rows)
          /\ \A i \in 1..Len(processed_df) :
                (\A k \in 1..Len(rates_db) : rates_db[k].id # raw_df.rows[i].ID)
                    => processed_df[i].Pay = 0
    /\ pc = "crashed" =>
          \E i \in 1..Len(raw_df.rows) :
              ~(TimeOk(raw_df.rows[i].First_In) /\ TimeOk(raw_df.rows[i].Last_Out))

\* a record of an unknown id with a non-zero worked time was computed against
\* a table that holds a non-zero rate for another id
C2_Witness ==
    /\ Returned
    /\ \E k \in 1..Len(rates_db) : rates_db[k].rate > 0
    /\ \E i \in 1..Len(processed_df) :
          /\ \A k \in 1..Len(rates_db) : rates_db[k].id # raw_df.rows[i].ID
          /\ raw_df.rows[i].First_In # raw_df.rows[i].Last_Out
          /\ processed_df[i].Pay = 0

\* the rate the table holds for id, 0 when it holds none
RateFor(id) ==
    IF \E k \in 1..Len(rates_db) : rates_db[k].id = id
    THEN rates_db[CHOOSE k \in 1..Len(rates_db) : rates_db[k].id = id].rate
    ELSE 0

\* C3: worked time is last_out minus first_in, unclamped (equal punches give 0
\* worked and 0 pay, last_out < first_in gives a negative duration); Pay is a
\* whole number nearest to worked_minutes * rate; and 08:05:00..17:20:00 under
\* shift 08:00:00-17:00:00 at rate 5.0 gives worked 555, late 5, overtime 20,
\* pay 2775.
C3_WorkedAndPay ==
    Returned =>
        \A i \in 1..Len(processed_df) :
            LET row == raw_df.rows[i]
                out == processed_df[i]
                worked_s == 86400 * out.Worked.days + out.Worked.seconds
                exact == worked_s * RateFor(row.ID)  \* pay, in 1/(60*RateDen) units
                diff == 60 * RateDen * out.Pay - exact
            IN  /\ worked_s = TimeSecs(row.Last_Out) - TimeSecs(row.First_In)
                /\ out.Worked.seconds \in 0..86399
                /\ row.First_In = row.Last_Out => worked_s = 0 /\ out.Pay = 0
                /\ 2 * diff <= 60 * RateDen /\ -2 * diff <= 60 * RateDen
                /\ ( /\ row.First_In = T_0805 /\ row.Last_Out = T_1720
                     /\ shift_start = 28800 /\ shift_end = 61200
                     /\ RateFor(row.ID) = 5 * RateDen )
                   => /\ worked_s = 555 * 60
                      /\ out.Late = 500 /\ out.Overtime = 2000
                      /\ out.Pay = 2775

\* the scenario's record was computed
C3_Witness ==
    /\ Returned
    /\ shift_start = 28800 /\ shift_end = 61200
    /\ \E i \in 1..Len(processed_df) :
          /\ raw_df.rows[i].First_In = T_0805 /\ raw_df.rows[i].Last_Out = T_1720
          /\ RateFor(raw_df.rows[i].ID) = 5 * RateDen
          /\ processed_df[i].Pay = 2775

-----------------------------------------------------------------------------
(* Properties of parse_html_report (checked under SpecParse)               *)

Parsed == pc = "parsed"

Doc == uploaded_file.tables

\* a table whose text holds both "id number" and "date", whatever the case
HeaderBearing(t) ==
    LET text == Lower(TableText(t))
    IN  Contains(text, STR_id_number) /\ Contains(text, STR_date)

HeaderBearingIdx == {i \in 1..Len(Doc) : HeaderBearing(Doc[i])}

\* the first header-bearing table of the document
Selected == Doc[CHOOSE i \in HeaderBearingIdx : \A j \in HeaderBearingIdx : i <= j]

\* the stripped texts of the td cells of a row
TdTexts(row) ==
    LET tds == SelectSeq(row, LAMBDA c : c.tag = "td")
    IN  [k \in 1..Len(tds) |-> Strip(tds[k].text)]

IsCandidate(text) == text # <<>> /\ \E i \in 1..Len(text) : text[i] = ":"

\* the candidate punch times among the stripped td texts of a row
CandidatesOf(texts) == {texts[j] : j \in {k \in 4..Len(texts) : IsCandidate(texts[k])}}

Candidates(row) == CandidatesOf(TdTexts(row))

\* a qualifying row: at least 5 cells, a date first, at least one candidate time
Qualifies(row) ==
    LET texts == TdTexts(row)
    IN  /\ Len(texts) >= 5
        /\ DateOk(texts[1])
        /\ CandidatesOf(texts) # {}

QualIdx(t) == {i \in 1..Len(t) : Qualifies(t[i])}

\* the qualifying rows of t, in row order
QualRows(t) == SelectSeq(t, Qualifies)

\* the stripped td texts of the qualifying rows of the selected table, in order
SelectedQual == LET q == QualRows(Selected) IN [n \in 1..Len(q) |-> TdTexts(q[n])]

\* C4: exactly one record per qualifying row of the selected table, in row
\* order; rows that do not qualify emit nothing.
C4_OneRecordPerQualifyingRow ==
    (Parsed /\ ~raw_df.none) =>
        LET qual == SelectedQual
        IN  /\ Len(raw_df.rows) = Len(qual)
            /\ Len(qual) = Cardinality(QualIdx(Selected))
            /\ \A n \in 1..Len(raw_df.rows) :
                  LET texts == qual[n]
                      rec == raw_df.rows[n]
                  IN  /\ rec.Date = texts[1]
                      /\ rec.ID = texts[2]
                      /\ rec.Name = texts[3]
                      /\ rec.First_In \in CandidatesOf(texts)
                      /\ rec.Last_Out \in CandidatesOf(texts)

\* a table of a five-cell row that does not qualify followed by two qualifying
\* rows of different employees was parsed into two records
C4_Witness ==
    /\ Parsed /\ ~raw_df.none
    /\ Len(raw_df.rows) = 2
    /\ LET t == Selected
       IN  \E i \in 1..Len(t) : ~Qualifies(t[i]) /\ Len(TdTexts(t[i])) >= 5
    /\ raw_df.rows[1].ID # raw_df.rows[2].ID

\* a zero-padded HH:MM:SS time
Padded(text) ==
    /\ Len(text) = 8
    /\ \A i \in {1, 2, 4, 5, 7, 8} : IsDigit(text[i])
    /\ text[3] = ":" /\ text[6] = ":"
    /\ TimeOk(text)

\* C5: when all candidate times of a row are zero-padded HH:MM:SS, First_In is
\* the chronologically earliest and Last_Out the chronologically latest; a
\* single punch gives First_In = Last_Out.
C5_EarliestAndLatest ==
    (Parsed /\ ~raw_df.none) =>
        LET qual == SelectedQual
        IN  \A n \in 1..Len(raw_df.rows) :
                LET cands == CandidatesOf(qual[n])
                    rec == raw_df.rows[n]
                IN  (\A c \in cands : Padded(c)) =>
                        /\ rec.First_In \in cands
                        /\ rec.Last_Out \in cands
                        /\ \A c \in cands :
                              /\ TimeSecs(rec.First_In) <= TimeSecs(c)
                              /\ TimeSecs(c) <= TimeSecs(rec.Last_Out)
                        /\ TimeSecs(rec.First_In) <= TimeSecs(rec.Last_Out)
                        /\ Cardinality(cands) = 1 => rec.First_In = rec.Last_Out

\* a row of several zero-padded punches, the latest not in the last cell, was
\* reduced, and so was a single-punch row
C5_Witness ==
    /\ Parsed /\ ~raw_df.none
    /\ LET qual == SelectedQual
       IN  /\ \E n \in 1..Len(raw_df.rows) :
                  /\ \A c \in CandidatesOf(qual[n]) : Padded(c)
                  /\ Cardinality(CandidatesOf(qual[n])) >= 2
                  /\ qual[n][Len(qual[n])] # raw_df.rows[n].Last_Out
           /\ \E n \in 1..Len(raw_df.rows) :
                  /\ \A c \in CandidatesOf(qual[n]) : Padded(c)
                  /\ Cardinality(CandidatesOf(qual[n])) = 1

\* C6: the first table whose text holds "id number" and "date" is the one read:
\* every record comes from a row of it, none from any other table; without
\* such a table the result is None.
C6_FirstHeaderBearingTable ==
    Parsed =>
        /\ raw_df.none <=> HeaderBearingIdx = {}
        /\ raw_df.none => raw_df.rows = <<>>
        /\ ~raw_df.none =>
              LET t == Selected
                  texts == [r \in 1..Len(t) |-> TdTexts(t[r])]
              IN  /\ Len(raw_df.rows) <= Len(t)
                  /\ \A n \in 1..Len(raw_df.rows) :
                        \E r \in 1..Len(t) :
                            /\ Len(texts[r]) >= 3
                            /\ raw_df.rows[n].Date = texts[r][1]
                            /\ raw_df.rows[n].ID = texts[r][2]
                            /\ raw_df.rows[n].Name = texts[r][3]

\* a document with a table that is not header-bearing first, then one that is,
\* then another that is, was parsed into records
C6_Witness ==
    /\ Parsed /\ ~raw_df.none
    /\ Len(Doc) = 3
    /\ HeaderBearingIdx = {2, 3}
    /\ Qualifies(Doc[1][2]) /\ Qualifies(Doc[3][2])
    /\ raw_df.rows # <<>>

SamePair(a, b) == a.ID = b.ID /\ a.Date = b.Date

\* C7 as stated: no two emitted records share (employee id, date).
C7_NoDuplicatePairs ==
    Parsed =>
        \A i, j \in 1..Len(raw_df.rows) :
            i # j => ~SamePair(raw_df.rows[i], raw_df.rows[j])

\* C7 as amended: records are not deduplicated. For every (id, date) the
\* number of emitted records equals the number of qualifying rows of the
\* selected table with that pair, so two records share a pair exactly when two
\* qualifying rows do.
C7_PairsAsInSource ==
    (Parsed /\ ~raw_df.none) =>
        LET qual == SelectedQual
        IN  /\ \A n \in 1..Len(raw_df.rows) :
                  Cardinality({m \in 1..Len(raw_df.rows) :
                                  SamePair(raw_df.rows[m], raw_df.rows[n])})
                    = Cardinality({r \in 1..Len(qual) :
                                      /\ qual[r][2] = raw_df.rows[n].ID
                                      /\ qual[r][1] = raw_df.rows[n].Date})
            /\ \A r \in 1..Len(qual) :
                  \E n \in 1..Len(raw_df.rows) :
                      /\ qual[r][2] = raw_df.rows[n].ID
                      /\ qual[r][1] = raw_df.rows[n].Date

\* a table repeating a (date, id) pair in two qualifying rows was parsed into
\* two records with that pair
C7_Witness ==
    /\ Parsed /\ ~raw_df.none
    /\ \E i, j \in 1..Len(raw_df.rows) :
          /\ i < j
          /\ SamePair(raw_df.rows[i], raw_df.rows[j])
          /\ raw_df.rows[i].First_In # raw_df.rows[j].First_In

-----------------------------------------------------------------------------
(* Properties of a whole run (checked under Spec)                          *)

AfterParse == uploaded_file.present /\ pc \notin {"load", "upload"}

AfterProvision == pc \in {"save", "save_update", "calc", "crashed"} \/ Returned

\* C8 as stated: the result of parse_html_report is None or a non-empty
\* sequence of records.
C8_NonEmptyOrNotFound ==
    AfterParse => (raw_df.none \/ raw_df.rows # <<>>)

\* C8 as amended: parse_html_report returns None or a possibly empty frame;
\* the upload handling treats an empty frame like None (the parse error is
\* shown, nothing is provisioned, saved or computed), so provisioning and
\* calculate_metrics only ever see a non-empty sequence.
C8_EmptyFrameHandledAsNotFound ==
    /\ AfterProvision => (~raw_df.none /\ raw_df.rows # <<>>)
    /\ (AfterParse /\ pc = "done" /\ (raw_df.none \/ raw_df.rows = <<>>)) =>
          /\ ui = "error_parse"
          /\ processed_df = <<>>
          /\ rates_db = loaded_db
          /\ sheet = sheet0

\* a document whose header-bearing table has no qualifying row ended in the
\* parse error
C8_Witness ==
    /\ pc = "done" /\ ui = "error_parse"
    /\ uploaded_file.present
    /\ ~raw_df.none /\ raw_df.rows = <<>>
    /\ HeaderBearingIdx # {}

ReportIds == {raw_df.rows[i].ID : i \in 1..Len(raw_df.rows)}

LoadedIds == {loaded_db[k].id : k \in 1..Len(loaded_db)}

\* C9: after provisioning the rates table holds the loaded ids and the
\* report's ids, the loaded ones with their loaded rate and the new ones with
\* 0.0; it is the same after calculate_metrics, and every record of a new id
\* has Pay 0.
C9_ProvisioningAddsZeroRates ==
    AfterProvision =>
        /\ {rates_db[k].id : k \in 1..Len(rates_db)} = LoadedIds \cup ReportIds
        /\ \A k, m \in 1..Len(rates_db) : rates_db[k].id = rates_db[m].id => k = m
        /\ \A k \in 1..Len(rates_db) :
              /\ rates_db[k].id \notin LoadedIds => rates_db[k].rate = 0
              /\ \A m \in 1..Len(loaded_db) :
                    loaded_db[m].id = rates_db[k].id => rates_db[k].rate = loaded_db[m].rate
        /\ Returned =>
              \A i \in 1..Len(processed_df) :
                  processed_df[i].ID \notin LoadedIds => processed_df[i].Pay = 0

\* a report with a new employee who worked and a known employee with a
\* non-zero rate was computed
C9_Witness ==
    /\ Returned
    /\ \E k \in 1..Len(loaded_db) : loaded_db[k].rate > 0 /\ loaded_db[k].id \in ReportIds
    /\ \E i \in 1..Len(processed_df) :
          /\ processed_df[i].ID \notin LoadedIds
          /\ processed_df[i].Pay = 0
    /\ \E i \in 1..Len(processed_df) :
          /\ processed_df[i].ID \in LoadedIds
          /\ processed_df[i].Pay > 0

\* the rates a sheet holds, by id
Stored(sh) == {<<PyStr(sh[i].ID), sh[i].Rate>> : i \in 1..Len(sh)}

\* C10: at the end of a run every id the sheet held when the run started is
\* still held with the same rate, whatever the load and the save did.
C10_StoreKeepsEntries ==
    pc \in {"done", "crashed"} => Stored(sheet0) \subseteq Stored(sheet)

====
